---- MODULE Spec2Model ----
(***************************************************************************)
(* Fahrzeugverwaltung: the polymorphic vehicle model (Fahrzeug, Auto,      *)
(* Elektroauto, Motorrad), its tagged-record conversion (to_dict /         *)
(* from_dict) and the store (Fahrzeugverwaltung) with whole-collection     *)
(* persistence to the JSON file DATEI.                                     *)
(*                                                                         *)
(* Python values are records [ty, v]: ty is the Python type, v the value   *)
(* written as a string.  A JSON text is modelled by its syntax tree:       *)
(* tokens [tok, v], objects as functions from key to token.                *)
(***************************************************************************)
EXTENDS Integers, Sequences, FiniteSets, TLC

\* ------------------------------------------------------------------ bounds
MaxDatei == 2        \* longest record array in the file before the program starts
MaxFahrzeuge == 3    \* fahrzeug_hinzufuegen is not called beyond this length

\* ------------------------------------------------------------ Python values
PyStr(s) == [ty |-> "str", v |-> s]
PyInt(s) == [ty |-> "int", v |-> s]
PyFloat(s) == [ty |-> "float", v |-> s]
None == [ty |-> "NoneType", v |-> ""]

\* ------------------------------------------------------------ vehicle model
Klassen == {"Auto", "Elektroauto", "Motorrad"}

\* parameters of Fahrzeug.__init__
Basisfelder == {"marke", "modell", "baujahr", "geschwindigkeit", "beschleunigung"}

\* the sixth parameter of each subclass constructor
Zusatzfeld(cls) == IF cls = "Elektroauto" THEN "energiequelle" ELSE "kraftstoff"

Parameter(cls) == Basisfelder \cup {Zusatzfeld(cls)}

\* placeholder where an operation yields no vehicle
KeinFahrzeug == [cls |-> "", attr |-> [k \in {} |-> None]]

\* a constructor that accepts and drops unexpected keyword arguments (**kwargs)
Konstruktor_nimmt_alles(cls, kwargs) ==
    IF Parameter(cls) \subseteq DOMAIN kwargs
    THEN [res |-> "fzg",
          fzg |-> [cls |-> cls, attr |-> [k \in Parameter(cls) |-> kwargs[k]]]]
    ELSE [res |-> "TypeError", fzg |-> KeinFahrzeug]

\* cls(**kwargs): Python binds keyword arguments to the parameters and raises
\* TypeError on a missing or an unexpected one; __init__ stores each argument.
Konstruktor(cls, kwargs) ==
    IF DOMAIN kwargs = Parameter(cls)
    THEN [res |-> "fzg",
          fzg |-> [cls |-> cls, attr |-> [k \in Parameter(cls) |-> kwargs[k]]]]
    ELSE [res |-> "TypeError", fzg |-> KeinFahrzeug]

\* Fahrzeug.to_dict: the discriminator and the five shared attributes
Fahrzeug_to_dict(f) ==
    [k \in {"typ"} \cup Basisfelder |->
        IF k = "typ" THEN PyStr(f.cls) ELSE f.attr[k]]

\* data[key] = value on a dict
Setze(d, key, value) ==
    [k \in DOMAIN d \cup {key} |-> IF k = key THEN value ELSE d[k]]

\* a to_dict that forgets the subclass attribute
to_dict_ohne_zusatz(f) == Fahrzeug_to_dict(f)

\* Auto.to_dict / Motorrad.to_dict / Elektroauto.to_dict
to_dict(f) ==
    IF f.cls = "Elektroauto"
    THEN Setze(Fahrzeug_to_dict(f), "energiequelle", f.attr["energiequelle"])
    ELSE Setze(Fahrzeug_to_dict(f), "kraftstoff", f.attr["kraftstoff"])

\* a decoder that falls back to Auto for an unknown discriminator
from_dict_standard_auto(item) ==
    IF ~item.dict
    THEN [res |-> "AttributeError", fzg |-> KeinFahrzeug]
    ELSE LET typ == IF "typ" \in DOMAIN item.m THEN item.m["typ"] ELSE None
             data == [k \in DOMAIN item.m \ {"typ"} |-> item.m[k]]
         IN  IF typ = PyStr("Elektroauto") THEN Konstruktor("Elektroauto", data)
             ELSE IF typ = PyStr("Motorrad") THEN Konstruktor("Motorrad", data)
             ELSE Konstruktor("Auto", data)

\* Fahrzeug.from_dict; item is one element of the loaded JSON value, and
\* item.dict says whether it is a dict (data.get exists only on a dict)
from_dict(item) ==
    IF ~item.dict
    THEN [res |-> "AttributeError", fzg |-> KeinFahrzeug]
    ELSE LET typ == IF "typ" \in DOMAIN item.m THEN item.m["typ"] ELSE None
             data == [k \in DOMAIN item.m \ {"typ"} |-> item.m[k]]
         IN  IF typ = PyStr("Auto") THEN Konstruktor("Auto", data)
             ELSE IF typ = PyStr("Elektroauto") THEN Konstruktor("Elektroauto", data)
             ELSE IF typ = PyStr("Motorrad") THEN Konstruktor("Motorrad", data)
             ELSE [res |-> "None", fzg |-> KeinFahrzeug]

\* Fahrzeug.__str__: "{marke} {modell} ({baujahr}) | {geschwindigkeit} km/h"
Fahrzeug_str(f) ==
    <<f.attr["marke"], f.attr["modell"], f.attr["baujahr"], f.attr["geschwindigkeit"]>>

\* Auto.__str__ / Motorrad.__str__ / Elektroauto.__str__
str(f) ==
    IF f.cls = "Elektroauto"
    THEN Fahrzeug_str(f) \o <<PyStr("Energiequelle"), f.attr["energiequelle"]>>
    ELSE Fahrzeug_str(f) \o <<PyStr("Kraftstoff"), f.attr["kraftstoff"]>>

\* beschleunigen: every subclass returns the base wording
beschleunigen(f) ==
    <<f.attr["marke"], f.attr["modell"], f.attr["beschleunigung"]>>

\* --------------------------------------------------------------------- json
\* json.dump of one value: str -> string, int -> number without fraction,
\* float -> number with fraction, None -> null
json_dump_wert(w) ==
    CASE w.ty = "str" -> [tok |-> "string", v |-> w.v]
      [] w.ty = "int" -> [tok |-> "number", v |-> w.v]
      [] w.ty = "float" -> [tok |-> "number.frac", v |-> w.v]
      [] OTHER -> [tok |-> "null", v |-> ""]

\* json.load of one token
json_load_wert(t) ==
    CASE t.tok = "string" -> PyStr(t.v)
      [] t.tok = "number" -> PyInt(t.v)
      [] t.tok = "number.frac" -> PyFloat(t.v)
      [] OTHER -> None

\* json.dump of a list of dicts: an array of objects, one per dict, in order
json_dump(liste) ==
    [k |-> "array",
     items |-> [i \in 1..Len(liste) |->
                  [dict |-> TRUE,
                   m |-> [key \in DOMAIN liste[i] |-> json_dump_wert(liste[i][key])]]]]

\* json.load of a parseable text: the array elements (for a top-level JSON
\* object: the dict, whose iteration yields its keys, which are not dicts)
json_load(doc) ==
    [k |-> doc.k,
     items |-> [i \in 1..Len(doc.items) |->
                  [dict |-> doc.items[i].dict,
                   m |-> [key \in DOMAIN doc.items[i].m |->
                            json_load_wert(doc.items[i].m[key])]]]]

\* file contents that json.load rejects (empty, truncated, not JSON)
Ungueltig == [k |-> "ungueltig", items |-> <<>>]

Fehlt == [art |-> "fehlt", doc |-> Ungueltig]
Text(doc) == [art |-> "text", doc |-> doc]

\* ------------------------------------------------------------ printed lines
Zeile(art, text) == [art |-> art, text |-> text]

KeineFahrzeuge == Zeile("Keine Fahrzeuge vorhanden.", <<>>)
FehlerBeimSpeichern == Zeile("Fehler beim Speichern", <<>>)
Uebersprungen(e) == Zeile("Ungueltiger Eintrag uebersprungen", <<PyStr(e)>>)

\* -------------------------------------------------------------------- store
\* result of a method body: the fields of self and of the file it leaves,
\* the lines it printed and the exception it lets escape ("" for none)
Ergebnis(fzge, datei, aus, exc) ==
    [fahrzeuge |-> fzge, DATEI |-> datei, ausgabe |-> aus, ausnahme |-> exc]

\* a speichern that opens the file for appending
speichern_anhaengen(fzge, datei, io) ==
    IF io = "open_fehler"
    THEN Ergebnis(fzge, datei, <<FehlerBeimSpeichern>>, "")
    ELSE LET liste == [i \in 1..Len(fzge) |-> to_dict(fzge[i])]
         IN  IF io = "schreib_fehler"
             THEN Ergebnis(fzge, Text(Ungueltig), <<FehlerBeimSpeichern>>, "")
             ELSE IF datei.art = "text" /\ datei.doc.k = "array"
             THEN Ergebnis(fzge,
                           Text([k |-> "array",
                                 items |-> datei.doc.items \o json_dump(liste).items]),
                           <<>>, "")
             ELSE Ergebnis(fzge, Text(json_dump(liste)), <<>>, "")

\* a speichern without the try/except
speichern_wirft(fzge, datei, io) ==
    IF io = "open_fehler"
    THEN Ergebnis(fzge, datei, <<>>, "OSError")
    ELSE LET liste == [i \in 1..Len(fzge) |-> to_dict(fzge[i])]
         IN  IF io = "schreib_fehler"
             THEN Ergebnis(fzge, Text(Ungueltig), <<>>, "OSError")
             ELSE Ergebnis(fzge, Text(json_dump(liste)), <<>>, "")

\* Fahrzeugverwaltung.speichern.  io is what the file system does:
\* "ok", "open_fehler" (open(DATEI, "w") raises, the file is untouched) or
\* "schreib_fehler" (open has truncated the file and json.dump or a write
\* raises, which leaves an empty or cut-off text).
speichern(fzge, datei, io) ==
    IF io = "open_fehler"
    THEN Ergebnis(fzge, datei, <<FehlerBeimSpeichern>>, "")
    ELSE LET liste == [i \in 1..Len(fzge) |-> to_dict(fzge[i])]
         IN  IF io = "schreib_fehler"
             THEN Ergebnis(fzge, Text(Ungueltig), <<FehlerBeimSpeichern>>, "")
             ELSE Ergebnis(fzge, Text(json_dump(liste)), <<>>, "")

\* a loop whose try/except encloses the whole for: the first bad record ends it
RECURSIVE LadenSchleife_abbruch(_, _, _, _)
LadenSchleife_abbruch(daten, i, fzge, aus) ==
    IF i > Len(daten) THEN [fahrzeuge |-> fzge, ausgabe |-> aus]
    ELSE LET r == from_dict(daten[i])
         IN  IF r.res = "fzg"
             THEN LadenSchleife_abbruch(daten, i + 1, Append(fzge, r.fzg), aus)
             ELSE IF r.res = "None"
             THEN LadenSchleife_abbruch(daten, i + 1, fzge, aus)
             ELSE [fahrzeuge |-> fzge, ausgabe |-> Append(aus, Uebersprungen(r.res))]

\* the for loop of laden over the loaded value, from element i on
RECURSIVE LadenSchleife(_, _, _, _)
LadenSchleife(daten, i, fzge, aus) ==
    IF i > Len(daten) THEN [fahrzeuge |-> fzge, ausgabe |-> aus]
    ELSE LET r == from_dict(daten[i])
         IN  IF r.res = "fzg"
             THEN LadenSchleife(daten, i + 1, Append(fzge, r.fzg), aus)
             ELSE IF r.res = "None"
             THEN LadenSchleife(daten, i + 1, fzge, aus)
             ELSE LadenSchleife(daten, i + 1, fzge, Append(aus, Uebersprungen(r.res)))

\* a laden that never resets self.fahrzeuge
laden_ohne_leeren(fzge, datei, lesbar) ==
    IF datei.art = "fehlt" THEN Ergebnis(fzge, datei, <<>>, "")
    ELSE IF ~lesbar THEN Ergebnis(fzge, datei, <<>>, "PermissionError")
    ELSE IF datei.doc.k = "ungueltig" THEN Ergebnis(fzge, datei, <<>>, "")
    ELSE IF datei.doc.k = "skalar" THEN Ergebnis(fzge, datei, <<>>, "TypeError")
    ELSE LET r == LadenSchleife(json_load(datei.doc).items, 1, fzge, <<>>)
         IN  Ergebnis(r.fahrzeuge, datei, r.ausgabe, "")

\* Fahrzeugverwaltung.laden.  lesbar: open(DATEI, "r") of an existing file
\* succeeds (otherwise PermissionError, which laden does not catch).
laden(fzge, datei, lesbar) ==
    IF datei.art = "fehlt" THEN Ergebnis(fzge, datei, <<>>, "")
    ELSE IF ~lesbar THEN Ergebnis(fzge, datei, <<>>, "PermissionError")
    ELSE IF datei.doc.k = "ungueltig" THEN Ergebnis(fzge, datei, <<>>, "")
    ELSE IF datei.doc.k = "skalar" THEN Ergebnis(<<>>, datei, <<>>, "TypeError")
    ELSE LET r == LadenSchleife(json_load(datei.doc).items, 1, <<>>, <<>>)
         IN  Ergebnis(r.fahrzeuge, datei, r.ausgabe, "")

\* a listing that walks the collection from the newest entry
Fahrzeugliste_rueckwaerts(fzge) ==
    IF fzge = <<>> THEN <<KeineFahrzeuge>>
    ELSE <<Zeile("Fahrzeugliste:", <<>>)>> \o
         [i \in 1..Len(fzge) |->
            Zeile("fahrzeug", str(fzge[Len(fzge) + 1 - i])
                              \o <<fzge[Len(fzge) + 1 - i].attr["beschleunigung"]>>)]

\* what alle_fahrzeuge_anzeigen prints
Fahrzeugliste(fzge) ==
    IF fzge = <<>> THEN <<KeineFahrzeuge>>
    ELSE <<Zeile("Fahrzeugliste:", <<>>)>> \o
         [i \in 1..Len(fzge) |->
            Zeile("fahrzeug", str(fzge[i]) \o <<fzge[i].attr["beschleunigung"]>>)]

\* what beschleunigungsinfo prints
Beschleunigungsliste(fzge) ==
    IF fzge = <<>> THEN <<KeineFahrzeuge>>
    ELSE <<Zeile("Beschleunigung der Fahrzeuge:", <<>>)>> \o
         [i \in 1..Len(fzge) |-> Zeile("beschleunigt", beschleunigen(fzge[i]))]

\* ------------------------------------------------------------------- inputs
Profil1(zusatz) ==
    [k \in Basisfelder \cup {zusatz} |->
        CASE k = "marke" -> PyStr("Toyota")
          [] k = "modell" -> PyStr("Yaris")
          [] k = "baujahr" -> PyInt("2020")
          [] k = "geschwindigkeit" -> PyInt("170")
          [] k = "beschleunigung" -> PyFloat("9.5")
          [] OTHER -> PyStr("Benzin")]

Profil2(zusatz) ==
    [k \in Basisfelder \cup {zusatz} |->
        CASE k = "marke" -> PyStr("Tesla")
          [] k = "modell" -> PyStr("Model 3")
          [] k = "baujahr" -> PyInt("2022")
          [] k = "geschwindigkeit" -> PyInt("225")
          [] k = "beschleunigung" -> PyFloat("3.3")
          [] OTHER -> PyStr("Strom")]

\* the vehicles the caller builds from validated input (menu options 1-3)
Auto1 == Konstruktor("Auto", Profil1("kraftstoff")).fzg
Elektroauto2 == Konstruktor("Elektroauto", Profil2("energiequelle")).fzg
Motorrad1 == Konstruktor("Motorrad", Profil1("kraftstoff")).fzg
Eingaben == {Auto1, Elektroauto2, Motorrad1}

\* one JSON object of the file as written for vehicle f
Eintrag(f) == json_dump(<<to_dict(f)>>).items[1]

Ohne(e, key) == [dict |-> TRUE, m |-> [k \in DOMAIN e.m \ {key} |-> e.m[k]]]
Mit(e, key, tok) == [dict |-> TRUE, m |-> Setze(e.m, key, tok)]
JString(s) == [tok |-> "string", v |-> s]

\* an array element that is no JSON object (a number, a string, null, a list)
KeinDict == [dict |-> FALSE, m |-> [k \in {} |-> JString("")]]

\* hand-edited records
FalscheEintraege ==
    { Mit(Eintrag(Auto1), "typ", JString("Unicycle")),
      Mit(Eintrag(Auto1), "typ", JString("auto")),
      Ohne(Eintrag(Auto1), "typ"),
      Ohne(Eintrag(Motorrad1), "kraftstoff"),
      Mit(Eintrag(Elektroauto2), "farbe", JString("rot")),
      KeinDict }

Eintraege == {Eintrag(Auto1), Eintrag(Elektroauto2)} \cup FalscheEintraege

Arrays == UNION {[1..n -> Eintraege] : n \in 0..MaxDatei}

\* the file before the first run: absent, empty or not JSON, a JSON scalar
\* (number, null, true), a JSON object, or an array of the entries above
DateiAnfang ==
    {Fehlt, Text(Ungueltig), Text([k |-> "skalar", items |-> <<>>]),
     Text([k |-> "objekt", items |-> <<KeinDict>>])}
    \cup {Text([k |-> "array", items |-> a]) : a \in Arrays}

\* -------------------------------------------------------------------- state
VARIABLES
    DATEI,      \* contents of fahrzeuge.json
    erzeugt,    \* a Fahrzeugverwaltung object exists (verwaltung is bound)
    fahrzeuge,  \* self.fahrzeuge
    op,         \* the operation that ran last
    arg,        \* its vehicle argument (KeinFahrzeug if it takes none)
    ausgabe,    \* the lines it printed
    ausnahme,   \* the exception it raised to its caller, "" if none
    vor         \* for a load or an add: what the operation before it did

vars == <<DATEI, erzeugt, fahrzeuge, op, arg, ausgabe, ausnahme, vor>>

Diagnosen(aus) == Len(SelectSeq(aus, LAMBDA z : z.art = "Ungueltiger Eintrag uebersprungen"))
GespeichertOk(aus) == \A i \in 1..Len(aus) : aus[i] # FehlerBeimSpeichern

\* what a following load or add records about this operation
Vor ==
    IF ausnahme # "" THEN ""
    ELSE IF ~GespeichertOk(ausgabe)
         THEN (IF op = "fahrzeug_hinzufuegen" THEN "nicht gespeichert" ELSE "")
    ELSE IF op \in {"speichern", "fahrzeug_hinzufuegen"} THEN "gespeichert"
    ELSE IF op \in {"laden", "__init__"}
         THEN (IF Diagnosen(ausgabe) > 0 THEN "geladen, uebersprungen" ELSE "geladen")
    ELSE ""

Init ==
    /\ DATEI \in DateiAnfang
    /\ erzeugt = FALSE
    /\ fahrzeuge = <<>>
    /\ op = "start"
    /\ arg = KeinFahrzeug
    /\ ausgabe = <<>>
    /\ ausnahme = ""
    /\ vor = ""

Uebernehme(name, a, r) ==
    /\ fahrzeuge' = r.fahrzeuge
    /\ DATEI' = r.DATEI
    /\ ausgabe' = r.ausgabe
    /\ ausnahme' = r.ausnahme
    /\ op' = name
    /\ arg' = a
    /\ vor' = IF name \in {"__init__", "laden", "fahrzeug_hinzufuegen"} THEN Vor ELSE ""

\* verwaltung = Fahrzeugverwaltung(): __init__ sets self.fahrzeuge = [] and
\* calls laden; an exception of laden leaves verwaltung unbound
init ==
    /\ ~erzeugt
    /\ \E lesbar \in BOOLEAN :
         LET r == laden(<<>>, DATEI, lesbar)
         IN  /\ Uebernehme("__init__", KeinFahrzeug,
                           IF r.ausnahme = "" THEN r
                           ELSE Ergebnis(<<>>, r.DATEI, r.ausgabe, r.ausnahme))
             /\ erzeugt' = (r.ausnahme = "")

\* fahrzeug_hinzufuegen: append, then speichern
fahrzeug_hinzufuegen ==
    /\ erzeugt
    /\ Len(fahrzeuge) < MaxFahrzeuge
    /\ \E f \in Eingaben, io \in {"ok", "open_fehler", "schreib_fehler"} :
         Uebernehme("fahrzeug_hinzufuegen", f, speichern(Append(fahrzeuge, f), DATEI, io))
    /\ UNCHANGED erzeugt

alle_fahrzeuge_anzeigen ==
    /\ erzeugt
    /\ Uebernehme("alle_fahrzeuge_anzeigen", KeinFahrzeug,
                  Ergebnis(fahrzeuge, DATEI, Fahrzeugliste(fahrzeuge), ""))
    /\ UNCHANGED erzeugt

beschleunigungsinfo ==
    /\ erzeugt
    /\ Uebernehme("beschleunigungsinfo", KeinFahrzeug,
                  Ergebnis(fahrzeuge, DATEI, Beschleunigungsliste(fahrzeuge), ""))
    /\ UNCHANGED erzeugt

\* verwaltung.speichern() called on its own
speichern_aufruf ==
    /\ erzeugt
    /\ \E io \in {"ok", "open_fehler", "schreib_fehler"} :
         Uebernehme("speichern", KeinFahrzeug, speichern(fahrzeuge, DATEI, io))
    /\ UNCHANGED erzeugt

\* verwaltung.laden() called on its own, on a store that may hold vehicles
laden_aufruf ==
    /\ erzeugt
    /\ \E lesbar \in BOOLEAN :
         Uebernehme("laden", KeinFahrzeug, laden(fahrzeuge, DATEI, lesbar))
    /\ UNCHANGED erzeugt

\* menu option 6: the process ends and its memory is gone; the file stays
beenden ==
    /\ erzeugt
    /\ Uebernehme("beenden", KeinFahrzeug, Ergebnis(<<>>, DATEI, <<>>, ""))
    /\ erzeugt' = FALSE

Next ==
    \/ init
    \/ fahrzeug_hinzufuegen
    \/ alle_fahrzeuge_anzeigen
    \/ beschleunigungsinfo
    \/ speichern_aufruf
    \/ laden_aufruf
    \/ beenden

Spec == Init /\ [][Next]_vars

\* --------------------------------------------------------------- properties
\* vocabulary of the properties, stated on the file's JSON and not on the loop

IstArray(d) == d.art = "text" /\ d.doc.k = "array"

\* json.load succeeds and the value can be iterated
Iterierbar(d) == d.art = "text" /\ d.doc.k \in {"array", "objekt"}

BekannterTyp(e) ==
    e.dict /\ "typ" \in DOMAIN e.m /\ e.m["typ"].tok = "string" /\ e.m["typ"].v \in Klassen

\* a record (a JSON object) without a discriminator naming a variant
UnbekannterTyp(e) == e.dict /\ ~BekannterTyp(e)

\* known variant, fields exactly the constructor's
Passend(e) == BekannterTyp(e) /\ DOMAIN e.m \ {"typ"} = Parameter(e.m["typ"].v)

\* known variant, a field missing or one too many
Unpassend(e) == BekannterTyp(e) /\ ~Passend(e)

FahrzeugVon(e) ==
    [cls |-> e.m["typ"].v,
     attr |-> [k \in DOMAIN e.m \ {"typ"} |-> json_load_wert(e.m[k])]]

FahrzeugeVon(eintraege) == [i \in 1..Len(eintraege) |-> FahrzeugVon(eintraege[i])]

Dekodierbare(d) == IF Iterierbar(d) THEN SelectSeq(d.doc.items, Passend) ELSE <<>>

Anzahl(seq, Test(_)) == Len(SelectSeq(seq, Test))

\* the last operation was a load that returned normally
Geladen == op \in {"laden", "__init__"} /\ ausnahme = ""

\* the last operation contained a save step that succeeded
Gespeichert == op \in {"speichern", "fahrzeug_hinzufuegen"} /\ GespeichertOk(ausgabe)

\* the array json.dump writes for a collection
Abbild(fzge) ==
    Text([k |-> "array",
          items |-> [i \in 1..Len(fzge) |->
                       [dict |-> TRUE,
                        m |-> [key \in {"typ"} \cup Parameter(fzge[i].cls) |->
                                 IF key = "typ" THEN JString(fzge[i].cls)
                                 ELSE json_dump_wert(fzge[i].attr[key])]]]])

\* to_dict, json.dump, json.load and from_dict in a row give f back
HinUndZurueck(f) ==
    from_dict(json_load(json_dump(<<to_dict(f)>>)).items[1]) = [res |-> "fzg", fzg |-> f]

\* C1: a vehicle converted with to_dict, written and read as JSON and decoded
\* with from_dict is the same vehicle (variant and all six attributes); and a
\* laden right after a successful save leaves the collection as it was
\* (same length, order and vehicles).
C1_RoundTrip ==
    /\ [](\A i \in 1..Len(fahrzeuge) : HinUndZurueck(fahrzeuge[i]))
    /\ [][(Gespeichert /\ op' = "laden" /\ ausnahme' = "") => fahrzeuge' = fahrzeuge]_vars

C1_Witness ==
    /\ op = "laden" /\ ausnahme = "" /\ vor = "gespeichert"
    /\ IstArray(DATEI)
    /\ Len(fahrzeuge) = 3
    /\ {fahrzeuge[i].cls : i \in 1..3} = Klassen

\* C2: after an add whose save succeeded the file is exactly the array of the
\* records of the collection, in order, the new vehicle last, nothing else.
C2_DateiIstAbbild ==
    (op = "fahrzeug_hinzufuegen" /\ GespeichertOk(ausgabe)) =>
        /\ fahrzeuge # <<>>
        /\ fahrzeuge[Len(fahrzeuge)] = arg
        /\ DATEI = Abbild(fahrzeuge)

C2_Witness ==
    /\ op = "fahrzeug_hinzufuegen" /\ GespeichertOk(ausgabe)
    /\ vor = "nicht gespeichert"
    /\ Len(fahrzeuge) = 3

\* C3: a save step never raises and never changes the collection (an add
\* leaves it as the old collection with the new vehicle appended); whenever
\* the file afterwards is not the image of the collection, the failure was
\* printed.
C3_SpeichernFaengtFehler ==
    [][(op' \in {"speichern", "fahrzeug_hinzufuegen"}) =>
          /\ ausnahme' = ""
          /\ fahrzeuge' = IF op' = "speichern" THEN fahrzeuge ELSE Append(fahrzeuge, arg')
          /\ (DATEI' # Abbild(fahrzeuge') =>
                \E i \in 1..Len(ausgabe') : ausgabe'[i] = FehlerBeimSpeichern)]_vars

C3_Witness ==
    /\ op = "fahrzeug_hinzufuegen"
    /\ ausgabe = <<FehlerBeimSpeichern>>
    /\ ausnahme = ""
    /\ Len(fahrzeuge) >= 2
    /\ fahrzeuge[Len(fahrzeuge)] = arg
    /\ DATEI # Abbild(fahrzeuge)

\* C4: after a load of an array, the collection is the decodable records in
\* their stored order, and each record of a known variant with a missing or
\* an extra field was reported as a TypeError and skipped.
C4_FalscheFelderUebersprungen ==
    (Geladen /\ IstArray(DATEI)) =>
        /\ fahrzeuge = FahrzeugeVon(SelectSeq(DATEI.doc.items, Passend))
        /\ Anzahl(ausgabe, LAMBDA z : z = Uebersprungen("TypeError"))
             = Anzahl(DATEI.doc.items, Unpassend)

C4_Witness ==
    /\ Geladen /\ IstArray(DATEI)
    /\ Len(DATEI.doc.items) >= 2
    /\ Unpassend(DATEI.doc.items[1])
    /\ Passend(DATEI.doc.items[2])
    /\ fahrzeuge # <<>>
    /\ fahrzeuge[1] = FahrzeugVon(DATEI.doc.items[2])

\* the array file d without its records of unknown or missing discriminator
OhneUnbekannte(d) ==
    Text([k |-> "array", items |-> SelectSeq(d.doc.items, LAMBDA e : ~UnbekannterTyp(e))])

\* C5: from_dict returns None for every record whose discriminator is missing
\* or is not exactly a variant name, and a load gives the same collection and
\* the same output as a load of the file without these records.
C5_UnbekannterTypIstNone ==
    /\ IstArray(DATEI) =>
         \A i \in 1..Len(DATEI.doc.items) :
            UnbekannterTyp(DATEI.doc.items[i]) =>
               from_dict(json_load(DATEI.doc).items[i]).res = "None"
    /\ (Geladen /\ IstArray(DATEI)) =>
         /\ fahrzeuge = laden(<<>>, OhneUnbekannte(DATEI), TRUE).fahrzeuge
         /\ ausgabe = laden(<<>>, OhneUnbekannte(DATEI), TRUE).ausgabe
         /\ Len(fahrzeuge) = Anzahl(DATEI.doc.items, Passend)

C5_Witness ==
    /\ Geladen /\ IstArray(DATEI)
    /\ Len(DATEI.doc.items) >= 2
    /\ UnbekannterTyp(DATEI.doc.items[1])
    /\ Passend(DATEI.doc.items[2])
    /\ fahrzeuge = <<FahrzeugVon(DATEI.doc.items[2])>>

\* C6: after a load of an array the collection is exactly the valid records
\* and one diagnostic was printed for each skipped record.
C6_EineDiagnoseJeUebersprungenem ==
    (Geladen /\ IstArray(DATEI)) =>
        /\ Len(fahrzeuge) = Anzahl(DATEI.doc.items, Passend)
        /\ Diagnosen(ausgabe) = Len(DATEI.doc.items) - Len(fahrzeuge)

\* C7: a load (and so the construction of the store) never raises, whatever
\* the file holds, and a store constructed on a missing or unparseable file
\* is empty.
C7_LadenWirftNie ==
    /\ op \in {"laden", "__init__"} => ausnahme = ""
    /\ (op = "__init__" /\ ~Iterierbar(DATEI)) => fahrzeuge = <<>>

\* C8 as stated: after a load the collection is the vehicles decoded from the
\* file, and empty when the file is absent or unparseable.
C8_LadenErsetztImmer ==
    [][(op' = "laden" /\ ausnahme' = "") =>
          fahrzeuge' = FahrzeugeVon(Dekodierbare(DATEI))]_vars

\* C8 amended: a load of a file that can be read and parsed replaces the
\* collection by the vehicles decoded from it; a load of an absent or
\* unparseable file leaves the collection as it was.
C8_LadenErsetztFallsLesbar ==
    [][(op' = "laden" /\ ausnahme' = "") =>
          fahrzeuge' = IF Iterierbar(DATEI) THEN FahrzeugeVon(Dekodierbare(DATEI))
                       ELSE fahrzeuge]_vars

\* C8 witness: the failed add before the load left a vehicle in the
\* collection; the load of a file without decodable records removed it
C8_Witness ==
    /\ op = "laden" /\ ausnahme = "" /\ vor = "nicht gespeichert"
    /\ IstArray(DATEI)
    /\ DATEI.doc.items # <<>>
    /\ fahrzeuge = <<>>

FahrzeugZeilen(aus, art) == SelectSeq(aus, LAMBDA z : z.art = art)

LeerGemeldet(aus) == \E i \in 1..Len(aus) : aus[i] = KeineFahrzeuge

\* C9: both listings print the empty message exactly when the collection is
\* empty, otherwise one line per vehicle in the order of the collection, which
\* is the order of the adds; they change neither collection nor file.
C9_AnzeigeInEinfuegeReihenfolge ==
    [][/\ op' = "fahrzeug_hinzufuegen" => fahrzeuge' = Append(fahrzeuge, arg')
       /\ op' \in {"alle_fahrzeuge_anzeigen", "beschleunigungsinfo"} =>
            /\ fahrzeuge' = fahrzeuge
            /\ DATEI' = DATEI
            /\ LeerGemeldet(ausgabe') <=> (fahrzeuge = <<>>)
       /\ op' = "alle_fahrzeuge_anzeigen" =>
            LET z == FahrzeugZeilen(ausgabe', "fahrzeug")
            IN  /\ Len(z) = Len(fahrzeuge)
                /\ Len(ausgabe') = IF fahrzeuge = <<>> THEN 1 ELSE Len(fahrzeuge) + 1
                /\ \A i \in 1..Len(z) :
                     LET a == fahrzeuge[i].attr
                     IN  z[i].text =
                           <<a["marke"], a["modell"], a["baujahr"], a["geschwindigkeit"],
                             IF fahrzeuge[i].cls = "Elektroauto"
                             THEN PyStr("Energiequelle") ELSE PyStr("Kraftstoff"),
                             a[Zusatzfeld(fahrzeuge[i].cls)], a["beschleunigung"]>>
       /\ op' = "beschleunigungsinfo" =>
            LET z == FahrzeugZeilen(ausgabe', "beschleunigt")
            IN  /\ Len(z) = Len(fahrzeuge)
                /\ Len(ausgabe') = IF fahrzeuge = <<>> THEN 1 ELSE Len(fahrzeuge) + 1
                /\ \A i \in 1..Len(z) :
                     LET a == fahrzeuge[i].attr
                     IN  z[i].text = <<a["marke"], a["modell"], a["beschleunigung"]>>
      ]_vars

C9_Witness ==
    /\ op = "alle_fahrzeuge_anzeigen"
    /\ fahrzeuge = <<Auto1, Elektroauto2, Motorrad1>>
    /\ Len(ausgabe) = 4
    /\ ausgabe[2].text[1] = PyStr("Toyota") /\ ausgabe[2].text[5] = PyStr("Kraftstoff")
    /\ ausgabe[3].text[1] = PyStr("Tesla") /\ ausgabe[3].text[5] = PyStr("Energiequelle")

\* C10 as stated: an add with a successful save right after a load leaves in
\* the file exactly the records the load decoded plus the new one; after a
\* load of an unparseable file, only the new one.
C10_NachLadenNurDekodierte ==
    [][(Geladen /\ op' = "fahrzeug_hinzufuegen" /\ GespeichertOk(ausgabe')) =>
          DATEI' = Abbild(Append(FahrzeugeVon(Dekodierbare(DATEI)), arg'))]_vars

\* C10 amended: the same, except that an unparseable or absent file leaves
\* only the new record when the load was the one of the construction; after a
\* later laden of such a file the add writes the kept collection and the new
\* record.  No record the load skipped is in the file afterwards.
C10_NachLadenOhneUebersprungene ==
    [][(Geladen /\ op' = "fahrzeug_hinzufuegen" /\ GespeichertOk(ausgabe')) =>
          /\ DATEI' = Abbild(Append(IF Iterierbar(DATEI) \/ op = "__init__"
                                    THEN FahrzeugeVon(Dekodierbare(DATEI))
                                    ELSE fahrzeuge,
                                    arg'))
          /\ \A i \in 1..Len(DATEI'.doc.items) : Passend(DATEI'.doc.items[i])]_vars

C10_Witness ==
    /\ op = "fahrzeug_hinzufuegen" /\ GespeichertOk(ausgabe)
    /\ vor = "geladen, uebersprungen"
    /\ Len(fahrzeuge) >= 2
    /\ DATEI = Abbild(fahrzeuge)

====
